---- MODULE Spec2Model ----
(***************************************************************************)
(* Client-side note encryption of the pad repository.                      *)
(*                                                                         *)
(* The repository holds four variants of one Remix route:                  *)
(*   - PBKDF2 + AES-GCM with an unlock screen  (src/app/routes/$id.tsx,    *)
(*     lines 1-259),                                                       *)
(*   - raw-key AES-CBC acting on the DOM       (src/app/routes/$id.tsx,    *)
(*     lines 261-495),                                                     *)
(*   - raw-key AES-GCM with optional key       (src/unnamed/part_001),     *)
(*   - the "age" armor                         (src/unnamed/part_000).     *)
(*                                                                         *)
(* A JavaScript string is a sequence of UTF-16 code units (integers), a    *)
(* byte array a sequence of integers in 0..255.  The platform conversions  *)
(* the code calls (TextEncoder, TextDecoder, btoa, atob, JSON.stringify,   *)
(* JSON.parse, String.prototype.split/trim) are computed on these          *)
(* sequences.  The ciphers of crypto.subtle are replaced by small          *)
(* deterministic stand-ins with the same interface and the same failure    *)
(* conditions; what is assumed of them is stated where they are defined.   *)
(***************************************************************************)
EXTENDS Integers, Sequences, FiniteSets, TLC

VARIABLES
    bPassword,      \* bench: the password (key string) records are produced under
    bPlain,         \* bench: the plaintext that is encrypted
    bRecords,       \* bench: the records the encryptText calls returned, in order
    bCall,          \* bench: the arguments of the last decryptText call
    bOut,           \* bench: what that call ended in
    store,          \* server: the notes of the list, as TodoManager keeps them
    notes,          \* per session: useLoaderData().notes
    password,       \* per session: useState("")
    unlocked,       \* per session: useState(false)
    decryptedNotes, \* per session: useState([])
    error,          \* per session: useState("")
    attempts,       \* per session: the attemptUnlock calls, running and ended
    noteElements,   \* AES-CBC page: textContent of the [data-note] elements
    textArea,       \* AES-CBC page: value of textarea[name='text']
    keyInput,       \* AES-CBC page: value of input[name='key']
    decryptKey,     \* AES-CBC page: value of the input with id decrypt-key
    submitting,     \* AES-CBC page: the onSubmit handler awaiting encryptText
    runs,           \* AES-CBC page: the Decrypt All handlers under way
    request,        \* AES-CBC page: the form data last sent to the action
    calls,          \* the encryptText calls made so far, by any session
    creating,       \* per session: the handleCreate call awaiting encryptText
    submitted,      \* per session: the form data fetcher.submit last sent
    ageTextArea,    \* age page: value of textarea[name="text"]
    encryptEnabled, \* age page: useState(false)
    ageRequest,     \* age page: the form data last sent to the action
    rawTextArea,    \* raw-key page: value of textarea[name="text"]
    encryptKey,     \* raw-key page: useState("")
    rawDecryptKey,  \* raw-key page: decryptKey, useState("")
    rawDecrypted,   \* raw-key page: decryptedNotes, useState([])
    showDecryptAll, \* raw-key page: useState(false)
    encrypting,     \* raw-key page: handleEncryptSubmit awaiting encryptText
    decrypting,     \* raw-key page: handleDecryptAll awaiting Promise.all
    rawRequest      \* raw-key page: the form data last sent to the action

benchVars == << bPassword, bPlain, bRecords, bCall, bOut >>

unlockVars == << store, notes, password, unlocked, decryptedNotes, error, attempts >>

cbcVars == << noteElements, textArea, keyInput, decryptKey, submitting, runs, request >>

createVars == << creating, submitted >>

ageVars == << ageTextArea, encryptEnabled, ageRequest >>

rawVars ==
    << rawTextArea, encryptKey, rawDecryptKey, rawDecrypted, showDecryptAll,
       encrypting, decrypting, rawRequest >>

vars == << benchVars, unlockVars, cbcVars, calls, createVars, ageVars, rawVars >>

\* What the bench leaves alone, what the PBKDF2 component leaves alone and
\* what the pages of the AES-CBC and the raw-key variant leave alone (store
\* and notes apart).
besideBench == << unlockVars, cbcVars, calls, createVars, ageVars, rawVars >>

besideUnlock == << benchVars, cbcVars, calls, createVars, ageVars, rawVars >>

besideCbc ==
    << benchVars, password, unlocked, decryptedNotes, error, attempts, calls,
       createVars, ageVars, rawVars >>

besideRaw ==
    << benchVars, password, unlocked, decryptedNotes, error, attempts, calls,
       createVars, ageVars, cbcVars >>

(***************************************************************************)
(* Sequences and bytes                                                     *)
(***************************************************************************)
Take(s, n) == SubSeq(s, 1, IF n < Len(s) THEN n ELSE Len(s))

Drop(s, n) == SubSeq(s, n + 1, Len(s))

RECURSIVE Flatten(_)
Flatten(ss) == IF ss = <<>> THEN <<>> ELSE Head(ss) \o Flatten(Tail(ss))

\* All sequences over S of length at most n.
SeqsUpTo(S, n) == UNION {[1..k -> S] : k \in 0..n}

RECURSIVE Xor(_, _)
Xor(a, b) ==
    IF a = 0 THEN b
    ELSE IF b = 0 THEN a
    ELSE (((a % 2) + (b % 2)) % 2) + (2 * Xor(a \div 2, b \div 2))

\* The printable ASCII characters, in code order starting at 32 (the grave
\* accent, code 96, is spelled out).
Printable ==
    << " ", "!", "\"", "#", "$", "%", "&", "'", "(", ")", "*", "+", ",", "-",
       ".", "/", "0", "1", "2", "3", "4", "5", "6", "7", "8", "9", ":", ";",
       "<", "=", ">", "?", "@", "A", "B", "C", "D", "E", "F", "G", "H", "I",
       "J", "K", "L", "M", "N", "O", "P", "Q", "R", "S", "T", "U", "V", "W",
       "X", "Y", "Z", "[", "\\", "]", "^", "_", "grave", "a", "b", "c", "d", "e",
       "f", "g", "h", "i", "j", "k", "l", "m", "n", "o", "p", "q", "r", "s",
       "t", "u", "v", "w", "x", "y", "z", "{", "|", "}", "~" >>

Code(ch) == 31 + CHOOSE i \in 1..Len(Printable) : Printable[i] = ch

\* The JavaScript string written as a tuple of its ASCII characters.
Str(chars) == [i \in 1..Len(chars) |-> Code(chars[i])]

(***************************************************************************)
(* TextEncoder.encode: the string is first made a scalar-value string (a   *)
(* surrogate that is not part of a pair becomes U+FFFD), then UTF-8.       *)
(***************************************************************************)
IsHighSurrogate(c) == c >= \hD800 /\ c <= \hDBFF

IsLowSurrogate(c) == c >= \hDC00 /\ c <= \hDFFF

Utf8OfCodePoint(cp) ==
    IF cp < \h80 THEN << cp >>
    ELSE IF cp < \h800 THEN << \hC0 + (cp \div 64), \h80 + (cp % 64) >>
    ELSE IF cp < \h10000
        THEN << \hE0 + (cp \div 4096), \h80 + ((cp \div 64) % 64), \h80 + (cp % 64) >>
    ELSE << \hF0 + (cp \div 262144), \h80 + ((cp \div 4096) % 64),
            \h80 + ((cp \div 64) % 64), \h80 + (cp % 64) >>

RECURSIVE TextEncode(_)
TextEncode(s) ==
    IF s = <<>> THEN <<>>
    ELSE IF IsHighSurrogate(s[1]) /\ Len(s) >= 2 /\ IsLowSurrogate(s[2])
        THEN Utf8OfCodePoint(\h10000 + ((s[1] - \hD800) * 1024) + (s[2] - \hDC00))
             \o TextEncode(Drop(s, 2))
    ELSE IF IsHighSurrogate(s[1]) \/ IsLowSurrogate(s[1])
        THEN Utf8OfCodePoint(\hFFFD) \o TextEncode(Tail(s))
    ELSE Utf8OfCodePoint(s[1]) \o TextEncode(Tail(s))

(***************************************************************************)
(* new TextDecoder().decode: the UTF-8 decoder of the Encoding standard    *)
(* with fatal = false (an ill-formed sequence becomes U+FFFD) and          *)
(* ignoreBOM = false (a leading U+FEFF is dropped from the output).        *)
(***************************************************************************)
Utf16OfCodePoint(cp) ==
    IF cp < \h10000 THEN << cp >>
    ELSE << \hD800 + ((cp - \h10000) \div 1024), \hDC00 + ((cp - \h10000) % 1024) >>

\* The decoder's run over bytes b[i..]: cp is the code point being built,
\* need the continuation bytes still expected, lo..hi the range allowed for
\* the next one.  The result is the sequence of code points.
RECURSIVE Utf8Decode(_, _, _, _, _, _)
Utf8Decode(b, i, cp, need, lo, hi) ==
    IF i > Len(b) THEN (IF need = 0 THEN <<>> ELSE << \hFFFD >>)
    ELSE LET x == b[i] IN
        IF need = 0 THEN
            IF x <= \h7F THEN << x >> \o Utf8Decode(b, i + 1, 0, 0, \h80, \hBF)
            ELSE IF x >= \hC2 /\ x <= \hDF
                THEN Utf8Decode(b, i + 1, x - \hC0, 1, \h80, \hBF)
            ELSE IF x >= \hE0 /\ x <= \hEF
                THEN Utf8Decode(b, i + 1, x - \hE0, 2,
                                IF x = \hE0 THEN \hA0 ELSE \h80,
                                IF x = \hED THEN \h9F ELSE \hBF)
            ELSE IF x >= \hF0 /\ x <= \hF4
                THEN Utf8Decode(b, i + 1, x - \hF0, 3,
                                IF x = \hF0 THEN \h90 ELSE \h80,
                                IF x = \hF4 THEN \h8F ELSE \hBF)
            ELSE << \hFFFD >> \o Utf8Decode(b, i + 1, 0, 0, \h80, \hBF)
        ELSE IF x < lo \/ x > hi
            \* the byte is not consumed: it is decoded again as a first byte
            THEN << \hFFFD >> \o Utf8Decode(b, i, 0, 0, \h80, \hBF)
        ELSE IF need = 1
            THEN << (cp * 64) + (x - \h80) >> \o Utf8Decode(b, i + 1, 0, 0, \h80, \hBF)
        ELSE Utf8Decode(b, i + 1, (cp * 64) + (x - \h80), need - 1, \h80, \hBF)

TextDecode(bytes) ==
    LET cps == Utf8Decode(bytes, 1, 0, 0, \h80, \hBF)
        kept == IF cps # <<>> /\ cps[1] = \hFEFF THEN Tail(cps) ELSE cps
    IN  Flatten([i \in 1..Len(kept) |-> Utf16OfCodePoint(kept[i])])

(***************************************************************************)
(* btoa(String.fromCharCode(...bytes)) and atob: base64 with padding, and  *)
(* the forgiving base64 decoder that atob runs (ASCII whitespace is        *)
(* removed, padding may be missing, any other character makes it throw).   *)
(***************************************************************************)
B64Char(v) ==
    IF v < 26 THEN 65 + v
    ELSE IF v < 52 THEN 97 + (v - 26)
    ELSE IF v < 62 THEN 48 + (v - 52)
    ELSE IF v = 62 THEN 43 ELSE 47

\* The value of a base64 character, -1 for any other character.
B64Val(c) ==
    IF c >= 65 /\ c <= 90 THEN c - 65
    ELSE IF c >= 97 /\ c <= 122 THEN (c - 97) + 26
    ELSE IF c >= 48 /\ c <= 57 THEN (c - 48) + 52
    ELSE IF c = 43 THEN 62
    ELSE IF c = 47 THEN 63 ELSE -1

RECURSIVE btoa(_)
btoa(b) ==
    IF b = <<>> THEN <<>>
    ELSE IF Len(b) = 1
        THEN << B64Char(b[1] \div 4), B64Char((b[1] % 4) * 16), 61, 61 >>
    ELSE IF Len(b) = 2
        THEN << B64Char(b[1] \div 4), B64Char(((b[1] % 4) * 16) + (b[2] \div 16)),
                B64Char((b[2] % 16) * 4), 61 >>
    ELSE << B64Char(b[1] \div 4), B64Char(((b[1] % 4) * 16) + (b[2] \div 16)),
            B64Char(((b[2] % 16) * 4) + (b[3] \div 64)), B64Char(b[3] % 64) >>
         \o btoa(Drop(b, 3))

IsAsciiWhitespace(c) == c \in {9, 10, 12, 13, 32}

RECURSIVE B64Groups(_)
B64Groups(v) ==
    IF Len(v) >= 4
        THEN << (v[1] * 4) + (v[2] \div 16), ((v[2] % 16) * 16) + (v[3] \div 4),
                ((v[3] % 4) * 64) + v[4] >> \o B64Groups(Drop(v, 4))
    ELSE IF Len(v) = 3
        THEN << (v[1] * 4) + (v[2] \div 16), ((v[2] % 16) * 16) + (v[3] \div 4) >>
    ELSE IF Len(v) = 2 THEN << (v[1] * 4) + (v[2] \div 16) >>
    ELSE <<>>

\* [ok |-> FALSE] stands for the InvalidCharacterError atob throws.
atob(str) ==
    LET s1 == SelectSeq(str, LAMBDA c : ~IsAsciiWhitespace(c))
        n1 == Len(s1)
        s2 == IF n1 % 4 = 0 /\ n1 >= 2 /\ s1[n1] = 61 /\ s1[n1 - 1] = 61
                  THEN Take(s1, n1 - 2)
              ELSE IF n1 % 4 = 0 /\ n1 >= 1 /\ s1[n1] = 61 THEN Take(s1, n1 - 1)
              ELSE s1
        vals == [i \in 1..Len(s2) |-> B64Val(s2[i])]
    IN  IF Len(s2) % 4 = 1 \/ \E i \in 1..Len(s2) : vals[i] = -1
            THEN [ok |-> FALSE, bytes |-> <<>>]
        ELSE [ok |-> TRUE, bytes |-> B64Groups(vals)]

(***************************************************************************)
(* JSON.stringify of { iv: number[], data: number[] } and JSON.parse.      *)
(* The parser covers the JSON texts the model feeds it: a non-negative     *)
(* integer, or an object whose members are arrays of non-negative          *)
(* integers, without white space or escapes; every other text is a         *)
(* SyntaxError ([ok |-> FALSE]).                                           *)
(***************************************************************************)
RECURSIVE Decimal(_)
Decimal(n) == IF n < 10 THEN << 48 + n >> ELSE Decimal(n \div 10) \o << 48 + (n % 10) >>

RECURSIVE JoinNumbers(_)
JoinNumbers(a) ==
    IF a = <<>> THEN <<>>
    ELSE IF Len(a) = 1 THEN Decimal(a[1])
    ELSE Decimal(a[1]) \o << 44 >> \o JoinNumbers(Tail(a))

\* JSON.stringify of an object whose members (in order) are number arrays.
RECURSIVE JoinMembers(_)
JoinMembers(m) ==
    IF m = <<>> THEN <<>>
    ELSE << 34 >> \o m[1].key \o << 34, 58, 91 >> \o JoinNumbers(m[1].arr) \o << 93 >>
         \o (IF Len(m) = 1 THEN <<>> ELSE << 44 >> \o JoinMembers(Tail(m)))

JSONstringify(members) == << 123 >> \o JoinMembers(members) \o << 125 >>

At(s, i) == IF i >= 1 /\ i <= Len(s) THEN s[i] ELSE -1

\* A form value as it is sent: unpaired surrogates become U+FFFD.
USVString(str) ==
    [i \in DOMAIN str |->
        IF \/ IsHighSurrogate(str[i]) /\ ~IsLowSurrogate(At(str, i + 1))
           \/ IsLowSurrogate(str[i]) /\ ~IsHighSurrogate(At(str, i - 1))
            THEN \hFFFD
        ELSE str[i]]

IsDigit(c) == c >= 48 /\ c <= 57

RECURSIVE ParseDigits(_, _, _)
ParseDigits(s, i, acc) ==
    IF IsDigit(At(s, i)) THEN ParseDigits(s, i + 1, (acc * 10) + (s[i] - 48))
    ELSE [ok |-> TRUE, n |-> acc, next |-> i]

ParseNumber(s, i) ==
    IF At(s, i) = 48 THEN [ok |-> TRUE, n |-> 0, next |-> i + 1]
    ELSE IF IsDigit(At(s, i)) THEN ParseDigits(s, i, 0)
    ELSE [ok |-> FALSE, n |-> 0, next |-> i]

RECURSIVE ParseElements(_, _, _)
ParseElements(s, i, acc) ==
    LET num == ParseNumber(s, i) IN
    IF ~num.ok THEN [ok |-> FALSE, arr |-> <<>>, next |-> i]
    ELSE IF At(s, num.next) = 44 THEN ParseElements(s, num.next + 1, Append(acc, num.n))
    ELSE IF At(s, num.next) = 93
        THEN [ok |-> TRUE, arr |-> Append(acc, num.n), next |-> num.next + 1]
    ELSE [ok |-> FALSE, arr |-> <<>>, next |-> i]

ParseArray(s, i) ==
    IF At(s, i) # 91 THEN [ok |-> FALSE, arr |-> <<>>, next |-> i]
    ELSE IF At(s, i + 1) = 93 THEN [ok |-> TRUE, arr |-> <<>>, next |-> i + 2]
    ELSE ParseElements(s, i + 1, <<>>)

RECURSIVE ParseChars(_, _, _)
ParseChars(s, i, acc) ==
    IF At(s, i) = 34 THEN [ok |-> TRUE, str |-> acc, next |-> i + 1]
    ELSE IF At(s, i) < 32 \/ At(s, i) = 92 THEN [ok |-> FALSE, str |-> <<>>, next |-> i]
    ELSE ParseChars(s, i + 1, Append(acc, s[i]))

ParseString(s, i) ==
    IF At(s, i) # 34 THEN [ok |-> FALSE, str |-> <<>>, next |-> i]
    ELSE ParseChars(s, i + 1, <<>>)

RECURSIVE ParseMembers(_, _, _)
ParseMembers(s, i, acc) ==
    LET key == ParseString(s, i)
        arr == ParseArray(s, key.next + 1)
        got == Append(acc, [key |-> key.str, arr |-> arr.arr])
    IN  IF ~key.ok \/ At(s, key.next) # 58 \/ ~arr.ok
            THEN [ok |-> FALSE, members |-> <<>>, next |-> i]
        ELSE IF At(s, arr.next) = 44 THEN ParseMembers(s, arr.next + 1, got)
        ELSE IF At(s, arr.next) = 125
            THEN [ok |-> TRUE, members |-> got, next |-> arr.next + 1]
        ELSE [ok |-> FALSE, members |-> <<>>, next |-> i]

ParseObject(s, i) ==
    IF At(s, i + 1) = 125 THEN [ok |-> TRUE, members |-> <<>>, next |-> i + 2]
    ELSE ParseMembers(s, i + 1, <<>>)

\* [ok |-> FALSE]: SyntaxError.  Otherwise the value: a number (isObject
\* FALSE) or an object with its members in source order.
JSONparse(s) ==
    LET obj == ParseObject(s, 1)
        num == ParseNumber(s, 1)
    IN  IF At(s, 1) = 123 /\ obj.ok /\ obj.next = Len(s) + 1
            THEN [ok |-> TRUE, isObject |-> TRUE, members |-> obj.members]
        ELSE IF At(s, 1) # 123 /\ num.ok /\ num.next = Len(s) + 1
            THEN [ok |-> TRUE, isObject |-> FALSE, members |-> <<>>]
        ELSE [ok |-> FALSE, isObject |-> FALSE, members |-> <<>>]

\* new Uint8Array(obj.name): the member's numbers modulo 256 (of members
\* with the same name the last one counts); an absent member is undefined,
\* which makes an empty array.
Uint8ArrayOf(val, name) ==
    LET hits == {i \in 1..Len(val.members) : val.members[i].key = name}
        last == CHOOSE i \in hits : \A j \in hits : j <= i
    IN  IF hits = {} THEN <<>>
        ELSE [i \in 1..Len(val.members[last].arr) |-> val.members[last].arr[i] % 256]

(***************************************************************************)
(* crypto.subtle stand-ins.                                                *)
(*                                                                         *)
(* Assumed of PBKDF2-HMAC-SHA-256: the derived key is a function of the    *)
(* HMAC key, the salt and the iteration count, and different HMAC keys     *)
(* give different derived keys.  HMAC pads a key shorter than its 64-byte  *)
(* block with zero bytes, so passwords whose bytes differ only in trailing *)
(* zero bytes are the same HMAC key.                                       *)
(*                                                                         *)
(* Assumed of AES-GCM: decrypt inverts encrypt under the same key and iv;  *)
(* under another key, or after the change of a single byte of the iv, the  *)
(* ciphertext or the tag, the tag check fails (OperationError).            *)
(*                                                                         *)
(* The stand-ins below are deterministic byte functions with exactly these *)
(* properties for keys that differ within their first 16 bytes, which all  *)
(* keys of the model do.                                                   *)
(***************************************************************************)
RECURSIVE Sum(_)
Sum(b) == IF b = <<>> THEN 0 ELSE b[1] + Sum(Tail(b))

HmacBlockLength == 64

\* The key HMAC works with: the given key padded with zero bytes to the
\* block length (a longer key would be hashed first; passwords of the model
\* are shorter).
HmacKey(keyBytes) ==
    [j \in 1..HmacBlockLength |-> IF j <= Len(keyBytes) THEN keyBytes[j] ELSE 0]

Salt == Str(<< "f", "i", "x", "e", "d", "-", "s", "a", "l", "t", "-", "f", "o", "r",
               "-", "d", "e", "r", "i", "v", "a", "t", "i", "o", "n" >>)

Iterations == 150000

KeyLength == 256

Pbkdf2(passwordBytes, salt, iterations, bits) ==
    LET block == HmacKey(passwordBytes)
        tweak == Sum(salt) + iterations
    IN  [j \in 1..(bits \div 8) |-> (block[j] + tweak + (7 * j)) % 256]

TagLength == 16

\* The authentication tag over iv and ciphertext under the key.
GcmTag(key, iv, body) ==
    LET x == iv \o body
        sum == Sum([i \in 1..Len(x) |-> ((2 * i) - 1) * x[i]]) + Len(iv)
    IN  [j \in 1..TagLength |-> (key[j] + sum + j) % 256]

GcmKeystream(key, iv, i) ==
    (key[((i - 1) % Len(key)) + 1]
     + (IF iv = <<>> THEN 0 ELSE iv[((i - 1) % Len(iv)) + 1]) + i) % 256

\* crypto.subtle.encrypt({ name: "AES-GCM", iv }, key, data): the ciphertext
\* followed by the tag.
AesGcmEncrypt(key, iv, data) ==
    LET body == [i \in 1..Len(data) |-> Xor(data[i], GcmKeystream(key, iv, i))]
    IN  body \o GcmTag(key, iv, body)

\* crypto.subtle.decrypt: [ok |-> FALSE] stands for the OperationError.
AesGcmDecrypt(key, iv, data) ==
    LET n == Len(data) - TagLength
        body == Take(data, n)
    IN  IF n < 0 \/ Drop(data, n) # GcmTag(key, iv, body)
            THEN [ok |-> FALSE, data |-> <<>>]
        ELSE [ok |-> TRUE,
              data |-> [i \in 1..n |-> Xor(body[i], GcmKeystream(key, iv, i))]]

(***************************************************************************)
(* PBKDF2 + AES-GCM variant: the crypto helpers                            *)
(***************************************************************************)
\* The member names of the record object.
IvName == Str(<< "i", "v" >>)

DataName == Str(<< "d", "a", "t", "a" >>)

deriveKey(pw) == Pbkdf2(TextEncode(pw), Salt, Iterations, KeyLength)

IvLength == 12

\* encryptText with an iv of its own (all bytes 0) in place of the draw.
encryptTextFixedIv(pw, plaintext, iv) ==
    LET fixed == [i \in 1..IvLength |-> 0] IN
    JSONstringify(<< [key |-> IvName, arr |-> fixed],
                     [key |-> DataName,
                      arr |-> AesGcmEncrypt(deriveKey(pw), fixed,
                                            TextEncode(plaintext))] >>)

\* encryptText(password, plaintext); iv is what crypto.getRandomValues drew.
encryptText(pw, plaintext, iv) ==
    JSONstringify(<< [key |-> IvName, arr |-> iv],
                     [key |-> DataName,
                      arr |-> AesGcmEncrypt(deriveKey(pw), iv,
                                            TextEncode(plaintext))] >>)

\* What a call of an async function ends in: a returned string, or a thrown
\* exception with its message; steps lists what the call did, in order.
Returned(text, steps) ==
    [kind |-> "return", text |-> text, message |-> "", steps |-> steps]

Thrown(message, steps) ==
    [kind |-> "throw", text |-> <<>>, message |-> message, steps |-> steps]

\* decryptText with a catch block that returns an empty string instead of
\* throwing.
\* decryptText with the text it was given put into the error it throws.
decryptTextEchoing(pw, cipherJson) ==
    LET key == deriveKey(pw)
        obj == JSONparse(cipherJson)
        iv == Uint8ArrayOf(obj, IvName)
        data == Uint8ArrayOf(obj, DataName)
        plaintext == AesGcmDecrypt(key, iv, data)
    IN  IF ~obj.ok
            THEN [Thrown("Bad password or corrupted data",
                         << "deriveKey", "JSON.parse" >>) EXCEPT !.text = cipherJson]
        ELSE IF ~plaintext.ok
            THEN [Thrown("Bad password or corrupted data",
                         << "deriveKey", "JSON.parse", "decrypt" >>)
                     EXCEPT !.text = cipherJson]
        ELSE Returned(TextDecode(plaintext.data),
                      << "deriveKey", "JSON.parse", "decrypt", "decode" >>)

decryptTextSwallowing(pw, cipherJson) ==
    LET key == deriveKey(pw)
        obj == JSONparse(cipherJson)
        iv == Uint8ArrayOf(obj, IvName)
        data == Uint8ArrayOf(obj, DataName)
        plaintext == AesGcmDecrypt(key, iv, data)
    IN  IF ~obj.ok THEN Returned(<<>>, << "deriveKey", "JSON.parse" >>)
        ELSE IF ~plaintext.ok
            THEN Returned(<<>>, << "deriveKey", "JSON.parse", "decrypt" >>)
        ELSE Returned(TextDecode(plaintext.data),
                      << "deriveKey", "JSON.parse", "decrypt", "decode" >>)

decryptText(pw, cipherJson) ==
    LET key == deriveKey(pw)
        obj == JSONparse(cipherJson)
        iv == Uint8ArrayOf(obj, IvName)
        data == Uint8ArrayOf(obj, DataName)
        plaintext == AesGcmDecrypt(key, iv, data)
    IN  IF ~obj.ok
            THEN Thrown("Bad password or corrupted data", << "deriveKey", "JSON.parse" >>)
        ELSE IF ~plaintext.ok
            THEN Thrown("Bad password or corrupted data",
                        << "deriveKey", "JSON.parse", "decrypt" >>)
        ELSE Returned(TextDecode(plaintext.data),
                      << "deriveKey", "JSON.parse", "decrypt", "decode" >>)

(***************************************************************************)
(* Raw-key AES-GCM variant (src/unnamed/part_001): the crypto helpers      *)
(***************************************************************************)
\* String.prototype.padEnd(n, c) and slice(0, n), on code units.
padEnd(s, n, c) == s \o [i \in 1..(IF Len(s) < n THEN n - Len(s) ELSE 0) |-> c]

slice(s, n) == Take(s, n)

RawKeyLength == 32

\* encoder.encode(key.padEnd(32, '0').slice(0, 32))
RawKeyData(key) == TextEncode(slice(padEnd(key, RawKeyLength, 48), RawKeyLength))

\* crypto.subtle.importKey('raw', keyData, { name: 'AES-...' }, ...) accepts
\* 128, 192 and 256 bit keys and throws a DataError for any other length.
ValidAesKey(keyData) == Len(keyData) \in {16, 24, 32}

RawIvLength == 12

\* encryptText(text, key) of part_001; iv is what crypto.getRandomValues drew.
encryptTextRaw(text, key, iv) ==
    IF key = <<>> THEN Returned(text, <<>>)
    ELSE IF ~ValidAesKey(RawKeyData(key)) THEN Thrown("DataError", << "importKey" >>)
    ELSE Returned(btoa(iv \o AesGcmEncrypt(RawKeyData(key), iv, TextEncode(text))),
                  << "importKey", "encrypt" >>)

FailPrefix ==
    Str(<< "[", "D", "e", "c", "r", "y", "p", "t", "i", "o", "n", " ", "F", "a", "i",
           "l", "e", "d", " ", "-", " ", "I", "n", "v", "a", "l", "i", "d", " ", "K",
           "e", "y", "?", "]", " " >>)

\* decryptText(encryptedText, key) of part_001.
decryptTextRaw(encryptedText, key) ==
    LET combined == atob(encryptedText)
        iv == Take(combined.bytes, RawIvLength)
        encrypted == Drop(combined.bytes, RawIvLength)
        keyData == RawKeyData(key)
        decrypted == AesGcmDecrypt(keyData, iv, encrypted)
    IN  IF key = <<>> THEN Returned(encryptedText, <<>>)
        ELSE IF ~combined.ok THEN Returned(FailPrefix \o encryptedText, << "atob" >>)
        ELSE IF ~ValidAesKey(keyData)
            THEN Returned(FailPrefix \o encryptedText, << "atob", "importKey" >>)
        ELSE IF ~decrypted.ok
            THEN Returned(FailPrefix \o encryptedText,
                          << "atob", "importKey", "decrypt" >>)
        ELSE Returned(TextDecode(decrypted.data),
                      << "atob", "importKey", "decrypt", "decode" >>)

(***************************************************************************)
(* AES-CBC variant: the crypto helpers                                     *)
(*                                                                         *)
(* AES-CBC with PKCS#7 padding is modelled as it is built: the plaintext   *)
(* is padded to whole blocks of 16 bytes, each block is xored with the     *)
(* previous ciphertext block (the iv for the first) and put through the    *)
(* block cipher.  Decryption fails (OperationError) when the iv is not 16  *)
(* bytes, when the ciphertext is empty or not whole blocks, or when the    *)
(* padding of the last block is wrong; nothing else is checked.  The block *)
(* cipher stand-in is a keyed permutation of the 16-byte blocks (a Feistel *)
(* network of four rounds), in which a change of the key or of one byte of *)
(* the block changes the whole block.                                      *)
(***************************************************************************)
BlockLength == 16

HalfLength == 8

Rounds == 4

RECURSIVE Mix(_, _)
Mix(half, j) ==
    IF j > Len(half) THEN 0 ELSE ((j * half[j]) + Mix(half, j + 1)) % 251

RoundFunction(key, r, half) ==
    [j \in 1..HalfLength |->
        ((Mix(half, 1) * ((2 * j) + 1))
         + key[(((HalfLength * (r - 1)) + j - 1) % Len(key)) + 1] + r) % 256]

RECURSIVE AesBlockEncrypt(_, _, _)
AesBlockEncrypt(key, r, block) ==
    IF r > Rounds THEN block
    ELSE LET left == Take(block, HalfLength)
             right == Drop(block, HalfLength)
             f == RoundFunction(key, r, right)
         IN  AesBlockEncrypt(key, r + 1,
                 right \o [j \in 1..HalfLength |-> (left[j] + f[j]) % 256])

RECURSIVE AesBlockDecrypt(_, _, _)
AesBlockDecrypt(key, r, block) ==
    IF r < 1 THEN block
    ELSE LET left == Take(block, HalfLength)
             right == Drop(block, HalfLength)
             f == RoundFunction(key, r, left)
         IN  AesBlockDecrypt(key, r - 1,
                 [j \in 1..HalfLength |-> (right[j] + 256 - f[j]) % 256] \o left)

XorBlocks(a, b) == [j \in 1..BlockLength |-> Xor(a[j], b[j])]

Pkcs7Pad(data) ==
    LET n == BlockLength - (Len(data) % BlockLength)
    IN  data \o [j \in 1..n |-> n]

RECURSIVE CbcChain(_, _, _)
CbcChain(key, previous, padded) ==
    IF padded = <<>> THEN <<>>
    ELSE LET c == AesBlockEncrypt(key, 1,
                      XorBlocks(Take(padded, BlockLength), previous))
         IN  c \o CbcChain(key, c, Drop(padded, BlockLength))

\* crypto.subtle.encrypt({ name: "AES-CBC", iv }, key, data)
AesCbcEncrypt(key, iv, data) == CbcChain(key, iv, Pkcs7Pad(data))

RECURSIVE CbcUnchain(_, _, _)
CbcUnchain(key, previous, data) ==
    IF data = <<>> THEN <<>>
    ELSE LET c == Take(data, BlockLength)
         IN  XorBlocks(AesBlockDecrypt(key, Rounds, c), previous)
                 \o CbcUnchain(key, c, Drop(data, BlockLength))

\* crypto.subtle.decrypt: [ok |-> FALSE] stands for the OperationError.
AesCbcDecrypt(key, iv, data) ==
    IF Len(iv) # BlockLength \/ data = <<>> \/ Len(data) % BlockLength # 0
        THEN [ok |-> FALSE, data |-> <<>>]
    ELSE LET padded == CbcUnchain(key, iv, data)
             n == padded[Len(padded)]
         IN  IF /\ n \in 1..BlockLength
                /\ \A j \in (Len(padded) - n + 1)..Len(padded) : padded[j] = n
                 THEN [ok |-> TRUE, data |-> Take(padded, Len(padded) - n)]
             ELSE [ok |-> FALSE, data |-> <<>>]

\* importKey(password): the raw key bytes; ValidAesKey says whether
\* crypto.subtle.importKey takes them (it rejects with DataError if not).
importKey(pw) == TextEncode(pw)

CbcIvLength == 16

Repeat(c, n) == [i \in 1..n |-> c]

\* Key strings: two keys AES takes (16 characters) and one it does not.
CbcKeys == {Repeat(97, 16), Repeat(98, 16), << 97 >>}

Colon == 58

\* text.split(":")
RECURSIVE split(_, _)
split(text, sep) ==
    IF \A i \in DOMAIN text : text[i] # sep THEN << text >>
    ELSE LET i == CHOOSE k \in DOMAIN text :
                      text[k] = sep /\ \A l \in 1..(k - 1) : text[l] # sep
         IN  << Take(text, i - 1) >> \o split(Drop(text, i), sep)

\* String(undefined): what atob makes of a missing argument.
Undefined == Str(<< "u", "n", "d", "e", "f", "i", "n", "e", "d" >>)

\* encryptText(text, password) of the AES-CBC variant; iv is what
\* crypto.getRandomValues drew.
encryptTextCbc(text, pw, iv) ==
    IF ~ValidAesKey(importKey(pw)) THEN Thrown("DataError", << "importKey" >>)
    ELSE Returned(btoa(iv) \o << Colon >>
                      \o btoa(AesCbcEncrypt(importKey(pw), iv, TextEncode(text))),
                  << "importKey", "encrypt" >>)

\* decryptText(text, password) of the AES-CBC variant.
decryptTextCbc(text, pw) ==
    LET parts == split(text, Colon)
        ivB64 == parts[1]
        ctB64 == IF Len(parts) > 1 THEN parts[2] ELSE Undefined
        iv == atob(ivB64)
        ciphertext == atob(ctB64)
        key == importKey(pw)
        plaintext == AesCbcDecrypt(key, iv.bytes, ciphertext.bytes)
    IN  IF ~iv.ok \/ ~ciphertext.ok
            THEN Thrown("InvalidCharacterError", << "atob" >>)
        ELSE IF ~ValidAesKey(key) THEN Thrown("DataError", << "atob", "importKey" >>)
        ELSE IF ~plaintext.ok
            THEN Thrown("OperationError", << "atob", "importKey", "decrypt" >>)
        ELSE Returned(TextDecode(plaintext.data),
                      << "atob", "importKey", "decrypt", "decode" >>)

(***************************************************************************)
(* The state of the component of the PBKDF2 + AES-GCM variant before any   *)
(* page is loaded.  A session is one mounted instance of the route         *)
(* component (a browser tab).                                              *)
(***************************************************************************)
Sessions == {"tab"}

MaxNotes == 2

\* The attemptUnlock calls of a session that can be told apart: two of them
\* can be under way at once, and an ended call gives its place to a new one.
Calls == {1, 2}

NoAttempt == [status |-> "idle", password |-> <<>>, notes |-> <<>>, out |-> <<>>]

\* No handleCreate call under way.
NoCreate == [status |-> "idle", plain |-> <<>>, password |-> <<>>]

\* The component as it mounts in each session of S with the loader data
\* `list`.
Mounted(S, list) ==
    /\ notes = [s \in S |-> list]
    /\ password = [s \in S |-> <<>>]
    /\ unlocked = [s \in S |-> FALSE]
    /\ decryptedNotes = [s \in S |-> <<>>]
    /\ error = [s \in S |-> ""]
    /\ attempts = [s \in S |-> [a \in Calls |-> NoAttempt]]
    /\ creating = [s \in S |-> NoCreate]
    /\ submitted = [s \in S |-> <<>>]

UnlockIdle == store = <<>> /\ Mounted(Sessions, <<>>)

\* The pages of the AES-CBC, the age and the raw-key variant before they
\* are loaded; no encryptText call made.
NoRun == [status |-> "idle", key |-> <<>>, n |-> 0, i |-> 0, encrypted |-> <<>>]

NoSubmit == [status |-> "idle", text |-> <<>>, key |-> <<>>]

\* No handleDecryptAll call under way.
NoDecryptAll == [status |-> "idle", key |-> <<>>, notes |-> <<>>]

Runs == {1, 2}

CbcIdle ==
    /\ noteElements = <<>>
    /\ textArea = <<>>
    /\ keyInput = <<>>
    /\ decryptKey = <<>>
    /\ submitting = NoSubmit
    /\ runs = [r \in Runs |-> NoRun]
    /\ request = <<>>
    /\ calls = <<>>
    /\ ageTextArea = <<>>
    /\ encryptEnabled = FALSE
    /\ ageRequest = <<>>
    /\ rawTextArea = <<>>
    /\ encryptKey = <<>>
    /\ rawDecryptKey = <<>>
    /\ rawDecrypted = <<>>
    /\ showDecryptAll = FALSE
    /\ encrypting = NoSubmit
    /\ decrypting = NoDecryptAll
    /\ rawRequest = <<>>

(***************************************************************************)
(* Bench for the crypto helpers: a password and a plaintext are chosen,    *)
(* encryptText is called on them, and decryptText is called on what it     *)
(* returned: with any password, with one byte of the record changed, or    *)
(* with a text that is no record.                                          *)
(***************************************************************************)
MaxTextLen == 1

MaxIvs == 2

\* Passwords: empty, "a", "b", "a" NUL, NUL, a lone high surrogate, U+FFFD.
Passwords ==
    {<<>>, << 97 >>, << 98 >>, << 97, 0 >>, << 0 >>, << \hD800 >>, << \hFFFD >>}

\* "a", U+FEFF, a high and a low surrogate
TextChars == {97, \hFEFF, \hD83D, \hDE00}

\* Plaintexts: every text of at most MaxTextLen of these characters, and
\* e acute, "a" U+FEFF, U+FEFF "a", U+1F600 (a surrogate pair).
Plaintexts ==
    SeqsUpTo(TextChars, MaxTextLen)
    \cup {<< \hE9 >>, << 97, \hFEFF >>, << \hFEFF, 97 >>, << \hD83D, \hDE00 >>}

\* The values crypto.getRandomValues(new Uint8Array(n)) may return (of the
\* 256^n possible ones, MaxIvs are kept).
RandomValues(n) == {[i \in 1..n |-> (v * i) % 256] : v \in 1..MaxIvs}

NoCall == [how |-> "none", password |-> <<>>, text |-> <<>>]

NoOutcome == [kind |-> "none", text |-> <<>>, message |-> "", steps |-> <<>>]

BenchIdle ==
    /\ bPassword = <<>>
    /\ bPlain = <<>>
    /\ bRecords = <<>>
    /\ bCall = NoCall
    /\ bOut = NoOutcome

BenchInit ==
    /\ bPassword \in Passwords
    /\ bPlain \in Plaintexts
    /\ bRecords = <<>>
    /\ bCall = NoCall
    /\ bOut = NoOutcome
    /\ UnlockIdle
    /\ CbcIdle

BenchEncrypt ==
    /\ bRecords = <<>>
    /\ \E iv \in RandomValues(IvLength) :
           bRecords' = << encryptText(bPassword, bPlain, iv) >>
    /\ UNCHANGED << bPassword, bPlain, bCall, bOut, besideBench >>

BenchDecrypt ==
    /\ bRecords # <<>>
    /\ bCall = NoCall
    /\ \E k \in Passwords :
           /\ bCall' = [how |-> "record", password |-> k, text |-> bRecords[1]]
           /\ bOut' = decryptText(k, bRecords[1])
    /\ UNCHANGED << bPassword, bPlain, bRecords, besideBench >>

TamperDeltas == {1, 128}

\* The record of these members with byte i of its iv (field 1) or data
\* (field 2) changed by d (d is not 0 modulo 256).
Tampered(members, field, i, d) ==
    JSONstringify([members EXCEPT ![field].arr[i] = (@ + d) % 256])

BenchDecryptTampered ==
    /\ bRecords # <<>>
    /\ bCall = NoCall
    /\ LET members == JSONparse(bRecords[1]).members IN
       \E field \in {1, 2}, d \in TamperDeltas :
         \E i \in 1..Len(members[field].arr) :
           LET text == Tampered(members, field, i, d) IN
           /\ bCall' = [how |-> "tampered", password |-> bPassword, text |-> text]
           /\ bOut' = decryptText(bPassword, text)
    /\ UNCHANGED << bPassword, bPlain, bRecords, besideBench >>

\* Texts that are no record: a record cut short, the record without one of
\* its fields, and the plaintext as it is.
Malformed(record, plain) ==
    LET obj == JSONparse(record) IN
    {Take(record, n) : n \in {0, 1, Len(record) \div 2, Len(record) - 1}}
    \cup {JSONstringify(<< obj.members[m] >>) : m \in 1..Len(obj.members)}
    \cup {JSONstringify(<<>>), plain}

BenchDecryptMalformed ==
    /\ bRecords # <<>>
    /\ bCall = NoCall
    /\ \E text \in Malformed(bRecords[1], bPlain) :
           /\ bCall' = [how |-> "malformed", password |-> bPassword, text |-> text]
           /\ bOut' = decryptText(bPassword, text)
    /\ UNCHANGED << bPassword, bPlain, bRecords, besideBench >>

CodecNext ==
    \/ BenchEncrypt
    \/ BenchDecrypt
    \/ BenchDecryptTampered
    \/ BenchDecryptMalformed

SpecCodec == BenchInit /\ [][CodecNext]_vars

(***************************************************************************)
(* PBKDF2 + AES-GCM variant: the server and the component                  *)
(*                                                                         *)
(* An attemptUnlock call keeps the password and the notes of the render it  *)
(* was started from; it awaits decryptText once per note, and other        *)
(* handlers run between two awaits.                                        *)
(***************************************************************************)
\* noteManager.create(text): the list with one more note, under a new id.
TodoCreate(list, text) == Append(list, [id |-> Len(list) + 1, text |-> text])

Create == Str(<< "c", "r", "e", "a", "t", "e" >>)

Delete == Str(<< "d", "e", "l", "e", "t", "e" >>)

\* noteManager.delete(id): the list without the note of this id.
TodoDelete(list, id) == SelectSeq(list, LAMBDA n : n.id # id)

\* action({ request }): the list after the request with this form data.
action(list, formData) ==
    IF "intent" \in DOMAIN formData /\ formData.intent = Create
        THEN IF "text" \in DOMAIN formData /\ formData.text # <<>>
                 THEN TodoCreate(list, formData.text)
             ELSE list
    ELSE IF "intent" \in DOMAIN formData /\ formData.intent = Delete
        THEN TodoDelete(list, formData.id)
    ELSE list

\* Texts a request may ask the server to store: records made by encryptText
\* under the passwords "a" and "b", and a text that is no record.
PostedTexts ==
    LET iv == CHOOSE v \in RandomValues(IvLength) : TRUE IN
    {encryptText(<< 97 >>, << 97 >>, iv), encryptText(<< 98 >>, << 98 >>, iv), << 97 >>}

\* What can be typed into the password input.
TypedPasswords == {<<>>, << 97 >>, << 98 >>}

\* A create request (of any client of the route) reaches the action.
PostCreate ==
    /\ Len(store) < MaxNotes
    /\ \E text \in PostedTexts :
           store' = action(store, [intent |-> Create, text |-> text])
    /\ UNCHANGED << notes, password, unlocked, decryptedNotes, error, attempts,
                    besideUnlock >>

\* The page is loaded: the loader runs and the component mounts with its
\* initial state; what the previous page was running is gone.
PageLoad(s) ==
    /\ notes' = [notes EXCEPT ![s] = store]
    /\ password' = [password EXCEPT ![s] = <<>>]
    /\ unlocked' = [unlocked EXCEPT ![s] = FALSE]
    /\ decryptedNotes' = [decryptedNotes EXCEPT ![s] = <<>>]
    /\ error' = [error EXCEPT ![s] = ""]
    /\ attempts' = [attempts EXCEPT ![s] = [a \in Calls |-> NoAttempt]]
    /\ creating' = [creating EXCEPT ![s] = NoCreate]
    /\ submitted' = [submitted EXCEPT ![s] = <<>>]
    /\ UNCHANGED << store, benchVars, cbcVars, calls, ageVars, rawVars >>

\* onChange of the password input (rendered while the session is locked).
SetPassword(s) ==
    /\ ~unlocked[s]
    /\ \E value \in TypedPasswords :
           /\ value # password[s]
           /\ password' = [password EXCEPT ![s] = value]
    /\ UNCHANGED << store, notes, unlocked, decryptedNotes, error, attempts,
                    besideUnlock >>

\* Click on Unlock (rendered while the session is locked): attemptUnlock
\* starts; with no notes it runs to its end at once.
AttemptUnlockStart(s) ==
    /\ ~unlocked[s]
    /\ \E a \in Calls :
           /\ attempts[s][a].status # "running"
           /\ \A b \in Calls : b < a => attempts[s][b].status = "running"
           /\ IF notes[s] = <<>>
                  THEN /\ decryptedNotes' = [decryptedNotes EXCEPT ![s] = <<>>]
                       /\ unlocked' = [unlocked EXCEPT ![s] = TRUE]
                       /\ error' = [error EXCEPT ![s] = ""]
                       /\ attempts' =
                              [attempts EXCEPT ![s][a] =
                                  [status |-> "unlocked", password |-> password[s],
                                   notes |-> <<>>, out |-> <<>>]]
              ELSE /\ attempts' =
                          [attempts EXCEPT ![s][a] =
                              [status |-> "running", password |-> password[s],
                               notes |-> notes[s], out |-> <<>>]]
                   /\ UNCHANGED << decryptedNotes, unlocked, error >>
    /\ UNCHANGED << store, notes, password, besideUnlock >>

\* attemptUnlock without its catch block: a note that does not decrypt is
\* pushed as it is stored and the loop goes on.
AttemptUnlockStepKeepingOn(s, a) ==
    /\ attempts[s][a].status = "running"
    /\ LET call == attempts[s][a]
           n == call.notes[Len(call.out) + 1]
           dec == decryptText(call.password, n.text)
           out == Append(call.out,
                         [id |-> n.id,
                          text |-> IF dec.kind = "throw" THEN n.text ELSE dec.text])
       IN  IF Len(out) = Len(call.notes)
               THEN /\ decryptedNotes' = [decryptedNotes EXCEPT ![s] = out]
                    /\ unlocked' = [unlocked EXCEPT ![s] = TRUE]
                    /\ error' = [error EXCEPT ![s] = ""]
                    /\ attempts' = [attempts EXCEPT ![s][a].status = "unlocked",
                                                    ![s][a].out = out]
           ELSE /\ attempts' = [attempts EXCEPT ![s][a].out = out]
                /\ UNCHANGED << decryptedNotes, unlocked, error >>
    /\ UNCHANGED << store, notes, password, besideUnlock >>

\* attemptUnlock resumes after `await decryptText(password, n.text)` for its
\* next note: the catch block on a throw, else the push and, after the last
\* note, the setters.
AttemptUnlockStep(s, a) ==
    /\ attempts[s][a].status = "running"
    /\ LET call == attempts[s][a]
           n == call.notes[Len(call.out) + 1]
           dec == decryptText(call.password, n.text)
           out == Append(call.out, [id |-> n.id, text |-> dec.text])
       IN  IF dec.kind = "throw"
               THEN /\ error' = [error EXCEPT ![s] = "Incorrect password"]
                    /\ attempts' = [attempts EXCEPT ![s][a].status = "failed"]
                    /\ UNCHANGED << decryptedNotes, unlocked >>
           ELSE IF Len(out) = Len(call.notes)
               THEN /\ decryptedNotes' = [decryptedNotes EXCEPT ![s] = out]
                    /\ unlocked' = [unlocked EXCEPT ![s] = TRUE]
                    /\ error' = [error EXCEPT ![s] = ""]
                    /\ attempts' = [attempts EXCEPT ![s][a].status = "unlocked",
                                                    ![s][a].out = out]
           ELSE /\ attempts' = [attempts EXCEPT ![s][a].out = out]
                /\ UNCHANGED << decryptedNotes, unlocked, error >>
    /\ UNCHANGED << store, notes, password, besideUnlock >>

\* What is typed into the textarea of the create form.
CreateTexts == {<< 97 >>}

\* The form data if the button of the form were an entry of it.
CreateFormDataWithButton(encrypted) == [intent |-> Create, text |-> encrypted]

\* new FormData(e.target) with its text field set to the record: the form
\* is given without a submitter, so the button (name="intent") is no entry.
CreateFormData(encrypted) == [text |-> encrypted]

\* Submit of the create form (rendered while the session is unlocked):
\* handleCreate runs up to `await encryptText(password, plain)`, with the
\* password of the render it was made in.
HandleCreateStart(s) ==
    /\ unlocked[s]
    /\ creating[s].status = "idle"
    /\ \E plain \in CreateTexts :
           creating' = [creating EXCEPT ![s] =
                           [status |-> "running", plain |-> USVString(plain),
                            password |-> password[s]]]
    /\ UNCHANGED << submitted, unlockVars, benchVars, cbcVars, calls, ageVars, rawVars >>

\* handleCreate resumes: formData.set, fetcher.submit (the action runs and
\* the loader is called again for the page), e.target.reset().
HandleCreateResume(s) ==
    /\ creating[s].status = "running"
    /\ \E iv \in RandomValues(IvLength) :
           LET encrypted == encryptText(creating[s].password, creating[s].plain, iv)
               formData == CreateFormData(encrypted)
           IN  /\ submitted' = [submitted EXCEPT ![s] = formData]
               /\ store' = action(store, formData)
               /\ notes' = [notes EXCEPT ![s] = store']
    /\ creating' = [creating EXCEPT ![s] = NoCreate]
    /\ UNCHANGED << password, unlocked, decryptedNotes, error, attempts,
                    benchVars, cbcVars, calls, ageVars, rawVars >>

\* Click on Delete beside a note of the displayed list: the <Form> posts
\* the hidden id with the button, the action runs and the loader is called
\* again for the page.
DeleteNote(s) ==
    /\ unlocked[s]
    /\ \E i \in DOMAIN decryptedNotes[s] :
           /\ store' = action(store, [intent |-> Delete, id |-> decryptedNotes[s][i].id])
           /\ notes' = [notes EXCEPT ![s] = store']
    /\ UNCHANGED << password, unlocked, decryptedNotes, error, attempts,
                    besideUnlock >>

UnlockNext ==
    \/ PostCreate
    \/ \E s \in Sessions : PageLoad(s)
    \/ \E s \in Sessions : SetPassword(s)
    \/ \E s \in Sessions : AttemptUnlockStart(s)
    \/ \E s \in Sessions : \E a \in Calls : AttemptUnlockStep(s, a)

UnlockInit == BenchIdle /\ UnlockIdle /\ CbcIdle

SpecUnlock == UnlockInit /\ [][UnlockNext]_vars

\* The password screen together with the create form.
CreateNext ==
    \/ PostCreate
    \/ \E s \in Sessions : PageLoad(s)
    \/ \E s \in Sessions : SetPassword(s)
    \/ \E s \in Sessions : AttemptUnlockStart(s)
    \/ \E s \in Sessions : \E a \in Calls : AttemptUnlockStep(s, a)
    \/ \E s \in Sessions : HandleCreateStart(s)
    \/ \E s \in Sessions : HandleCreateResume(s)

CreateInit == BenchIdle /\ UnlockIdle /\ CbcIdle

SpecCreate == CreateInit /\ [][CreateNext]_vars

\* A list that holds two notes made under the password "a".
StoredNotes ==
    LET iv == CHOOSE v \in RandomValues(IvLength) : TRUE IN
    TodoCreate(TodoCreate(<<>>, encryptText(<< 97 >>, << 97 >>, iv)),
               encryptText(<< 97 >>, << 98 >>, iv))

\* The component on that list, which only it writes to.
DisplayNext ==
    \/ \E s \in Sessions : PageLoad(s)
    \/ \E s \in Sessions : SetPassword(s)
    \/ \E s \in Sessions : AttemptUnlockStart(s)
    \/ \E s \in Sessions : \E a \in Calls : AttemptUnlockStep(s, a)
    \/ \E s \in Sessions : HandleCreateStart(s)
    \/ \E s \in Sessions : HandleCreateResume(s)
    \/ \E s \in Sessions : DeleteNote(s)

DisplayInit ==
    BenchIdle /\ store = StoredNotes /\ Mounted(Sessions, StoredNotes) /\ CbcIdle

SpecDisplay == DisplayInit /\ [][DisplayNext]_vars

\* Two sessions of the component on one list that starts empty and that
\* only these sessions write to.  (With the list staying empty attemptUnlock
\* never reaches an await, so AttemptUnlockStep is no step of these
\* sessions.)
Tabs == {"tab", "other tab"}

SessionsNext ==
    \/ \E s \in Tabs : PageLoad(s)
    \/ \E s \in Tabs : SetPassword(s)
    \/ \E s \in Tabs : AttemptUnlockStart(s)
    \/ \E s \in Tabs : HandleCreateStart(s)
    \/ \E s \in Tabs : HandleCreateResume(s)

SessionsInit == BenchIdle /\ store = <<>> /\ Mounted(Tabs, <<>>) /\ CbcIdle

SpecSessions == SessionsInit /\ [][SessionsNext]_vars

(***************************************************************************)
(* AES-CBC variant: the page                                               *)
(*                                                                         *)
(* The page keeps no component state: the create form and the Decrypt All  *)
(* button read the inputs of the document, and Decrypt All writes into the *)
(* [data-note] elements.  The action is the one of the PBKDF2 variant.     *)
(***************************************************************************)
Page == CHOOSE s \in Sessions : TRUE

\* Code units String.prototype.trim removes.
WhiteSpace == {9, 10, 11, 12, 13, 32, \hA0, \h2028, \h2029, \hFEFF}

RECURSIVE trimStart(_)
trimStart(str) ==
    IF str # <<>> /\ Head(str) \in WhiteSpace THEN trimStart(Tail(str)) ELSE str

RECURSIVE trimEnd(_)
trimEnd(str) ==
    IF str # <<>> /\ str[Len(str)] \in WhiteSpace
        THEN trimEnd(Take(str, Len(str) - 1))
    ELSE str

trim(str) == trimEnd(trimStart(str))

FailedToDecrypt ==
    Str(<< "[", "F", "a", "i", "l", "e", "d", " ", "t", "o", " ",
           "d", "e", "c", "r", "y", "p", "t", "]" >>)

\* {notes.map((note) => ... <pre data-note>{note.text}</pre> ...)}
Render(list) == [i \in DOMAIN list |-> list[i].text]

\* What can be typed into the three inputs.
FormTexts == {<<>>, << 97 >>}

FormKeys == {<<>>, << 32 >>, << 97 >>, Repeat(97, 16)}

DecryptKeys == {<<>>, Repeat(97, 16), Repeat(98, 16)}

\* Texts a request may ask the server to store: a record made by encryptText
\* under the key of sixteen "a", and a text that is no record.
CbcPostedTexts ==
    LET iv == CHOOSE v \in RandomValues(CbcIvLength) : TRUE IN
    {encryptTextCbc(<< 97 >>, Repeat(97, 16), iv).text, << 97 >>}

\* A create request (of any client of the route) reaches the action.
CbcPostCreate ==
    /\ Len(store) < MaxNotes
    /\ \E text \in CbcPostedTexts :
           store' = action(store, [intent |-> Create, text |-> text])
    /\ UNCHANGED << notes, cbcVars, besideCbc >>

\* The document is loaded: the loader runs and the page is rendered anew.
Loaded(list) ==
    /\ notes' = [notes EXCEPT ![Page] = list]
    /\ noteElements' = Render(list)
    /\ textArea' = <<>>
    /\ keyInput' = <<>>
    /\ decryptKey' = <<>>
    /\ submitting' = NoSubmit
    /\ runs' = [r \in Runs |-> NoRun]

CbcPageLoad ==
    /\ Loaded(store)
    /\ UNCHANGED << store, request, besideCbc >>

CbcTypeText ==
    /\ \E value \in FormTexts : value # textArea /\ textArea' = value
    /\ UNCHANGED << store, notes, noteElements, keyInput, decryptKey, submitting,
                    runs, request, besideCbc >>

CbcTypeKey ==
    /\ \E value \in FormKeys : value # keyInput /\ keyInput' = value
    /\ UNCHANGED << store, notes, noteElements, textArea, decryptKey, submitting,
                    runs, request, besideCbc >>

CbcTypeDecryptKey ==
    /\ \E value \in DecryptKeys : value # decryptKey /\ decryptKey' = value
    /\ UNCHANGED << store, notes, noteElements, textArea, keyInput, submitting,
                    runs, request, besideCbc >>

\* onSubmit of the create form.  With a key, the handler prevents the
\* submission and awaits encryptText.  Without one it returns, and <Form>
\* submits the form with its submitter (the button named intent); after the
\* action the loader runs again and the list is rendered for the new notes.
CbcSubmit ==
    /\ submitting.status = "idle"
    /\ LET key == trim(keyInput) IN
       IF key # <<>>
           THEN /\ submitting' =
                       [status |-> "encrypting", text |-> textArea, key |-> key]
                /\ UNCHANGED << store, notes, noteElements, request >>
       ELSE LET formData == [text |-> USVString(textArea),
                             key |-> USVString(keyInput),
                             intent |-> Create]
                list == action(store, formData)
            IN  /\ Len(store) < MaxNotes
                /\ request' = formData
                /\ store' = list
                /\ notes' = [notes EXCEPT ![Page] = list]
                /\ noteElements' =
                       [i \in DOMAIN list |->
                           IF i <= Len(noteElements) THEN noteElements[i]
                           ELSE list[i].text]
                /\ UNCHANGED submitting
    /\ UNCHANGED << textArea, keyInput, decryptKey, runs, besideCbc >>

\* The onSubmit handler resumes after `await encryptText(textArea.value, key)`:
\* it puts the record into the textarea and calls form.submit(), which sends
\* the fields of the form without a submitter and loads the response.
CbcSubmitResume ==
    /\ submitting.status = "encrypting"
    /\ \E iv \in RandomValues(CbcIvLength) :
         LET encrypted == encryptTextCbc(submitting.text, submitting.key, iv)
             formData == [text |-> USVString(encrypted.text),
                          key |-> USVString(keyInput)]
         IN  IF encrypted.kind = "throw"
                 THEN /\ submitting' = NoSubmit
                      /\ UNCHANGED << store, notes, noteElements, textArea, keyInput,
                                      decryptKey, runs, request >>
             ELSE /\ request' = formData
                  /\ store' = action(store, formData)
                  /\ Loaded(action(store, formData))
    /\ UNCHANGED besideCbc

\* What a Decrypt All handler writes into the element whose text it read.
Shown(encrypted, key) ==
    LET plain == decryptTextCbc(encrypted, key)
    IN  IF plain.kind = "throw" THEN FailedToDecrypt ELSE plain.text

\* Click on Decrypt All Notes: the handler takes the key and the elements
\* and, if there are any, reads the text of the first and awaits decryptText.
DecryptAllStart ==
    /\ trim(decryptKey) # <<>>
    /\ noteElements # <<>>
    /\ \E r \in Runs :
           /\ runs[r].status # "running"
           /\ \A q \in Runs : q < r => runs[q].status = "running"
           /\ runs' = [runs EXCEPT ![r] =
                          [status |-> "running", key |-> trim(decryptKey),
                           n |-> Len(noteElements), i |-> 1,
                           encrypted |-> noteElements[1]]]
    /\ UNCHANGED << store, notes, noteElements, textArea, keyInput, decryptKey,
                    submitting, request, besideCbc >>

\* The handler resumes after `await decryptText(encrypted!, key)`: it writes
\* the plaintext, or "[Failed to decrypt]" in the catch block, into the
\* element and goes on to the next element.
DecryptAllStep(r) ==
    /\ runs[r].status = "running"
    /\ LET run == runs[r]
           elements == [noteElements EXCEPT ![run.i] = Shown(run.encrypted, run.key)]
       IN  /\ noteElements' = elements
           /\ runs' = [runs EXCEPT ![r] =
                          IF run.i < run.n
                              THEN [run EXCEPT !.i = run.i + 1,
                                               !.encrypted = elements[run.i + 1]]
                          ELSE [NoRun EXCEPT !.status = "done"]]
    /\ UNCHANGED << store, notes, textArea, keyInput, decryptKey, submitting,
                    request, besideCbc >>

CbcInit == BenchIdle /\ UnlockIdle /\ CbcIdle

\* The create form of the page.
CbcCreateNext ==
    \/ CbcPostCreate
    \/ CbcPageLoad
    \/ CbcTypeText
    \/ CbcTypeKey
    \/ CbcSubmit
    \/ CbcSubmitResume

SpecCbcCreate == CbcInit /\ [][CbcCreateNext]_vars

\* Decrypt All on the page.
DecryptAllNext ==
    \/ CbcPostCreate
    \/ CbcPageLoad
    \/ CbcTypeDecryptKey
    \/ DecryptAllStart
    \/ \E r \in Runs : DecryptAllStep(r)

SpecDecryptAll == CbcInit /\ [][DecryptAllNext]_vars

(***************************************************************************)
(* C1-C4: the crypto helpers of the PBKDF2 + AES-GCM variant               *)
(***************************************************************************)

\* C1: decrypting a record with the (non-empty) password it was encrypted
\* under returns exactly the plaintext that was encrypted.
C1_RoundTrip ==
    (bCall.how = "record" /\ bCall.password = bPassword /\ bPassword # <<>>)
        => (bOut.kind = "return" /\ bOut.text = bPlain)

\* Two passwords derive the same key: their UTF-8 bytes agree up to trailing
\* zero bytes (what deriveKey gives to PBKDF2, and what HMAC makes of it).
SameKeyMaterial(k1, k2) == HmacKey(TextEncode(k1)) = HmacKey(TextEncode(k2))

Signal(out) == [kind |-> out.kind, message |-> out.message]

\* C4: a text that is no record ends decryptText in an outcome that differs
\* from the one a wrong password ends it in.
C4_CorruptRecordDistinct ==
    bCall.how = "malformed"
        => /\ bOut.kind = "throw"
           /\ \A k \in Passwords :
                  LET wrong == decryptText(k, bRecords[1]) IN
                  wrong.kind = "throw" => Signal(wrong) # Signal(bOut)

(***************************************************************************)
(* C5, C10: attemptUnlock and the password screen                          *)
(***************************************************************************)
\* Note i of an attemptUnlock call decrypts under the password of the call.
Decrypts(call, i) == decryptText(call.password, call.notes[i].text).kind = "return"

\* The call ended in this step.
Ends(s, a) ==
    /\ attempts[s][a].status = "running"
    /\ attempts'[s][a].status \in {"failed", "unlocked"}

\* C5: when an attemptUnlock call ends whose list holds notes that decrypt
\* under the entered password and at least one that does not, the plaintext
\* of every note that decrypts is in decryptedNotes: the failing note did
\* not abort the batch or discard the successful results.
C5_FailuresPerNote ==
    [][\A s \in Sessions : \A a \in Calls :
           LET call == attempts[s][a] IN
           (/\ Ends(s, a)
            /\ \E i \in DOMAIN call.notes : Decrypts(call, i)
            /\ \E i \in DOMAIN call.notes : ~Decrypts(call, i))
           => \A i \in DOMAIN call.notes :
                  Decrypts(call, i) =>
                      \E k \in DOMAIN decryptedNotes'[s] :
                          decryptedNotes'[s][k] =
                              [id |-> call.notes[i].id,
                               text |-> decryptText(call.password,
                                                    call.notes[i].text).text]]_vars

\* C10: a session goes from unlocked = false to unlocked = true only in the
\* step that ends an attemptUnlock call whose every note (the notes the
\* session has loaded) decrypted under the password the call was started
\* with, and decryptedNotes then holds their plaintexts; the step in which a
\* call fails leaves unlocked and decryptedNotes as they were and sets error
\* to "Incorrect password", so a locked session stays locked and shows it.
C10_UnlockStateMachine ==
    [][\A s \in Sessions :
           /\ (~unlocked[s] /\ unlocked'[s]) =>
                  \E a \in Calls :
                      LET call == attempts'[s][a] IN
                      /\ attempts[s][a].status # "unlocked"
                      /\ call.status = "unlocked"
                      /\ call.notes = notes[s]
                      /\ \A i \in DOMAIN call.notes : Decrypts(call, i)
                      /\ decryptedNotes'[s] =
                             [i \in DOMAIN call.notes |->
                                 [id |-> call.notes[i].id,
                                  text |-> decryptText(call.password,
                                                       call.notes[i].text).text]]
           /\ \A a \in Calls :
                  LET call == attempts[s][a] IN
                  (\/ attempts'[s][a].status = "failed" /\ call.status = "running"
                   \/ /\ Ends(s, a)
                      /\ \E i \in DOMAIN call.notes : ~Decrypts(call, i))
                  => /\ attempts'[s][a].status = "failed"
                     /\ \E i \in DOMAIN call.notes : ~Decrypts(call, i)
                     /\ unlocked'[s] = unlocked[s]
                     /\ decryptedNotes'[s] = decryptedNotes[s]
                     /\ error'[s] = "Incorrect password"]_vars

\* A session that a first call, with a password that does not decrypt,
\* left locked with the error shown, and that a second call unlocked.
C10_Witness ==
    \E s \in Sessions :
        /\ unlocked[s]
        /\ decryptedNotes[s] # <<>>
        /\ error[s] = ""
        /\ \E a, b \in Calls :
               /\ attempts[s][a].status = "failed"
               /\ attempts[s][b].status = "unlocked"
               /\ \A i \in DOMAIN notes[s] : Decrypts(attempts[s][b], i)

(***************************************************************************)
(* Bench for the crypto helpers of the raw-key AES-GCM variant             *)
(***************************************************************************)
\* Keys: empty, "a", "a0", "b", e acute.
RawKeys == {<<>>, << 97 >>, << 97, 48 >>, << 98 >>, << \hE9 >>}

RawBenchInit ==
    /\ bPassword \in RawKeys
    /\ bPlain \in Plaintexts
    /\ bRecords = <<>>
    /\ bCall = NoCall
    /\ bOut = NoOutcome
    /\ UnlockIdle
    /\ CbcIdle

\* encryptText either returns the text to store or throws.
RawBenchEncrypt ==
    /\ bRecords = <<>>
    /\ bCall = NoCall
    /\ \E iv \in RandomValues(RawIvLength) :
         LET out == encryptTextRaw(bPlain, bPassword, iv) IN
         IF out.kind = "return"
             THEN bRecords' = << out.text >> /\ UNCHANGED << bCall, bOut >>
         ELSE /\ bCall' = [how |-> "encrypt", password |-> bPassword, text |-> bPlain]
              /\ bOut' = out
              /\ UNCHANGED bRecords
    /\ UNCHANGED << bPassword, bPlain, besideBench >>

RawBenchDecrypt ==
    /\ bRecords # <<>>
    /\ bCall = NoCall
    /\ \E k \in RawKeys :
           /\ bCall' = [how |-> "record", password |-> k, text |-> bRecords[1]]
           /\ bOut' = decryptTextRaw(bRecords[1], k)
    /\ UNCHANGED << bPassword, bPlain, bRecords, besideBench >>

\* Texts that are no record: a record cut short, a record with a character
\* that is not base64, and the plaintext as it is (a note stored unencrypted).
RawMalformed(record, plain) ==
    {Take(record, n) : n \in {0, 1, Len(record) \div 2, Len(record) - 1}}
    \cup {<< 91 >> \o record, plain}

RawBenchDecryptMalformed ==
    /\ bRecords # <<>>
    /\ bCall = NoCall
    /\ \E text \in RawMalformed(bRecords[1], bPlain) :
           /\ bCall' = [how |-> "malformed", password |-> bPassword, text |-> text]
           /\ bOut' = decryptTextRaw(text, bPassword)
    /\ UNCHANGED << bPassword, bPlain, bRecords, besideBench >>

RawNext ==
    \/ RawBenchEncrypt
    \/ RawBenchDecrypt
    \/ RawBenchDecryptMalformed

SpecRaw == RawBenchInit /\ [][RawNext]_vars

(***************************************************************************)
(* C3: failures of decryptText in the raw-key AES-GCM variant              *)
(***************************************************************************)
\* The call went through to the decoding of the decrypted bytes.
Succeeded(out) == out.steps # <<>> /\ out.steps[Len(out.steps)] = "decode"

\* s occurs in t as a contiguous part.
Contains(t, s) == \E i \in 0..(Len(t) - Len(s)) : SubSeq(t, i + 1, i + Len(s)) = s

\* C3: a decryptText call that does not succeed does not end in a returned
\* string (which is what a successful call ends in), and its result does not
\* hold the ciphertext it was given.
C3_FailureIsNoString ==
    (bCall.how \in {"record", "malformed"} /\ ~Succeeded(bOut))
        => (bOut.kind # "return" /\ ~Contains(bOut.text, bCall.text))

(***************************************************************************)
(* Bench for the crypto helpers of the AES-CBC variant                     *)
(***************************************************************************)
CbcBenchInit ==
    /\ bPassword \in CbcKeys
    /\ bPlain \in Plaintexts
    /\ bRecords = <<>>
    /\ bCall = NoCall
    /\ bOut = NoOutcome
    /\ UnlockIdle
    /\ CbcIdle

CbcBenchEncrypt ==
    /\ bRecords = <<>>
    /\ bCall = NoCall
    /\ \E iv \in RandomValues(CbcIvLength) :
         LET out == encryptTextCbc(bPlain, bPassword, iv) IN
         IF out.kind = "return"
             THEN bRecords' = << out.text >> /\ UNCHANGED << bCall, bOut >>
         ELSE /\ bCall' = [how |-> "encrypt", password |-> bPassword, text |-> bPlain]
              /\ bOut' = out
              /\ UNCHANGED bRecords
    /\ UNCHANGED << bPassword, bPlain, besideBench >>

CbcBenchDecrypt ==
    /\ bRecords # <<>>
    /\ bCall = NoCall
    /\ \E k \in CbcKeys :
           /\ bCall' = [how |-> "record", password |-> k, text |-> bRecords[1]]
           /\ bOut' = decryptTextCbc(bRecords[1], k)
    /\ UNCHANGED << bPassword, bPlain, bRecords, besideBench >>

\* The record with byte i of its iv (field 1) or of its ciphertext (field 2)
\* changed by d (d is not 0 modulo 256).
CbcTampered(record, field, i, d) ==
    LET parts == split(record, Colon)
        bytes == [f \in {1, 2} |-> atob(parts[f]).bytes]
        changed == [bytes EXCEPT ![field][i] = (@ + d) % 256]
    IN  btoa(changed[1]) \o << Colon >> \o btoa(changed[2])

CbcBenchDecryptTampered ==
    /\ bRecords # <<>>
    /\ bCall = NoCall
    /\ \E field \in {1, 2}, d \in TamperDeltas :
         \E i \in 1..Len(atob(split(bRecords[1], Colon)[field]).bytes) :
           LET text == CbcTampered(bRecords[1], field, i, d) IN
           /\ bCall' = [how |-> "tampered", password |-> bPassword, text |-> text]
           /\ bOut' = decryptTextCbc(text, bPassword)
    /\ UNCHANGED << bPassword, bPlain, bRecords, besideBench >>

CbcCodecNext ==
    \/ CbcBenchEncrypt
    \/ CbcBenchDecrypt
    \/ CbcBenchDecryptTampered

SpecCbcCodec == CbcBenchInit /\ [][CbcCodecNext]_vars

(***************************************************************************)
(* C7: a changed byte of the iv or of the ciphertext                       *)
(***************************************************************************)
\* C7: decryptText, called under the password of the record on a record of
\* encryptText with one byte of its iv or of its ciphertext changed, throws;
\* it never returns a text.  (Under SpecCodec the calls are those of the
\* PBKDF2 + AES-GCM variant, under SpecCbcCodec those of the AES-CBC variant.)
C7_TamperDetected == bCall.how = "tampered" => bOut.kind = "throw"

(***************************************************************************)
(* C6, C9: the page of the AES-CBC variant                                 *)
(***************************************************************************)
\* Decrypt All handler r resumed in this step (it wrote into its element).
Resumed(r) ==
    /\ runs[r].status = "running"
    /\ runs'[r] # runs[r]
    /\ runs'[r].status \in {"running", "done"}

\* The text is a record of encryptText: there is a key it decrypts under.
Ciphertext(text) == \E k \in CbcKeys : decryptTextCbc(text, k).kind = "return"

\* C6: when decryptText fails under the key of a Decrypt All run for an
\* element that shows a ciphertext, the text of the element is left as it
\* was; and when a run ends, every element whose note decrypts under the key
\* of the run shows the plaintext of its note (so a run with the correct key
\* after a run with a failing key yields the plaintext).
C6_CiphertextKeptForRetry ==
    [][\A r \in Runs :
           LET run == runs[r] IN
           Resumed(r) =>
               /\ (/\ Ciphertext(run.encrypted)
                   /\ decryptTextCbc(run.encrypted, run.key).kind = "throw")
                      => noteElements'[run.i] = noteElements[run.i]
               /\ runs'[r].status = "done" =>
                      \A i \in 1..run.n :
                          LET plain == decryptTextCbc(notes[Page][i].text, run.key)
                          IN  plain.kind = "return"
                                  => noteElements'[i] = plain.text]_vars

\* C9: a request that note creation sends holds no field whose value is the
\* key typed into the key input of the form.
C9_KeyNeverSent ==
    [][request' # request =>
           \/ trim(keyInput) = <<>>
           \/ \A f \in DOMAIN request' : request'[f] # USVString(keyInput)]_vars

(***************************************************************************)
(* The encryptText calls of the PBKDF2 + AES-GCM variant and of the        *)
(* raw-key AES-GCM variant.  encryptText keeps no state: calls made by one *)
(* session or by several are calls one after the other, each with its own  *)
(* draw of crypto.getRandomValues.                                         *)
(***************************************************************************)
MaxCalls == 2

CallKeys == {<<>>, << 97 >>}

CallTexts == {<< 97 >>, << 98 >>}

\* encryptText(password, plaintext) of the PBKDF2 variant is called.
EncryptTextCall ==
    /\ Len(calls) < MaxCalls
    /\ \E key \in CallKeys, text \in CallTexts, iv \in RandomValues(IvLength) :
           calls' = Append(calls, [variant |-> "pbkdf2", key |-> key, text |-> text,
                                   drawn |-> iv,
                                   record |-> encryptText(key, text, iv)])
    /\ UNCHANGED << benchVars, unlockVars, cbcVars, createVars, ageVars, rawVars >>

\* encryptText(text, key) of the raw-key variant is called.
EncryptTextRawCall ==
    /\ Len(calls) < MaxCalls
    /\ \E key \in CallKeys, text \in CallTexts, iv \in RandomValues(RawIvLength) :
           calls' = Append(calls, [variant |-> "raw", key |-> key, text |-> text,
                                   drawn |-> iv,
                                   record |-> encryptTextRaw(text, key, iv).text])
    /\ UNCHANGED << benchVars, unlockVars, cbcVars, createVars, ageVars, rawVars >>

CallsNext ==
    \/ EncryptTextCall
    \/ EncryptTextRawCall

SpecCalls == CbcInit /\ [][CallsNext]_vars

(***************************************************************************)
(* C8: the iv of the records                                               *)
(***************************************************************************)
\* The iv a record carries: obj.iv, or the first 12 bytes of the record.
IvOf(call) ==
    IF call.variant = "pbkdf2"
        THEN Uint8ArrayOf(JSONparse(call.record), IvName)
    ELSE Take(atob(call.record).bytes, RawIvLength)

\* Two calls that encrypt under the same key.
SameKey(c, d) ==
    /\ c.variant = d.variant
    /\ c.key = d.key
    /\ c.variant = "raw" => c.key # <<>>

C11_EmptyPasswordRejected ==
    /\ bPassword = <<>> => bRecords = <<>>
    /\ (bCall.how # "none" /\ bCall.password = <<>>) => bOut.kind = "throw"

\* All the caller of decryptText gets of an outcome: returned or thrown, the
\* message, the text.
Outcome(out) == [kind |-> out.kind, message |-> out.message, text |-> out.text]

\* Passwords tried against a record of another password.
OtherPasswords == {<< 97 >>, << 98 >>}

\* C12: the outcome of decryptText on a record with one byte of its iv or
\* data changed, under the password of the record, is the outcome of
\* decryptText on the record itself under a password that derives another
\* key.
C12_SameOutcome ==
    bCall.how = "tampered"
        => \A k \in OtherPasswords :
               ~SameKeyMaterial(k, bPassword)
                   => Outcome(decryptText(k, bRecords[1])) = Outcome(bOut)

\* A tampered record was rejected, and there is a wrong password to compare.
C12_Witness ==
    /\ bCall.how = "tampered"
    /\ bOut.kind = "throw"
    /\ \E k \in OtherPasswords :
           /\ ~SameKeyMaterial(k, bPassword)
           /\ decryptText(k, bRecords[1]).kind = "throw"

\* C17: on a text that is no record decryptText ends without deriveKey and
\* without crypto.subtle.decrypt having been called.
C17_ParsedBeforeCrypto ==
    bCall.how = "malformed"
        => \A i \in DOMAIN bOut.steps : bOut.steps[i] \notin {"deriveKey", "decrypt"}

(***************************************************************************)
(* C13, C15: plaintext notes and keys of the raw-key AES-GCM variant       *)
(***************************************************************************)
\* isEncrypted: note.text !== decryptedText
isEncrypted(noteText, decryptedText) == noteText # decryptedText

\* C13: a note stored as plaintext (encryptText with no key returned the
\* text itself) is not handled as an encrypted record when the notes are
\* decrypted with a key: decryptText gives the text back and isEncrypted is
\* false.
C13_PlaintextToldApart ==
    (bCall.how = "record" /\ bPassword = <<>> /\ bCall.password # <<>>)
        => ~isEncrypted(bCall.text, bOut.text)

\* C15: decryptText with a key string other than the one the record was
\* made with fails, and does not give the plaintext.
C15_OtherKeyStringFails ==
    (bCall.how = "record" /\ bCall.password # bPassword)
        => (~Succeeded(bOut) /\ bOut.text # bPlain)

(***************************************************************************)
(* C14: two Decrypt All runs at once                                       *)
(***************************************************************************)
\* C14: while two Decrypt All runs with the same key are under way, a run
\* that resumes for an element which shows the plaintext of its note under
\* that key (a result already produced) leaves the plaintext there.
C14_RunsDoNotInterfere ==
    [][\A r \in Runs :
           (/\ Resumed(r)
            /\ \E q \in Runs :
                   q # r /\ runs[q].status = "running" /\ runs[q].key = runs[r].key)
           => LET i == runs[r].i
                  plain == decryptTextCbc(notes[Page][i].text, runs[r].key)
              IN  (plain.kind = "return" /\ noteElements[i] = plain.text)
                      => noteElements'[i] = plain.text]_vars

(***************************************************************************)
(* The age variant: encryptWithAge, the action, and the form with the      *)
(* "Encrypt with age" checkbox and the Add Note button.                    *)
(***************************************************************************)
NewLine == << 10 >>

AGE_PUBLIC_KEY ==
    Str(<< "a", "g", "e", "1", "h", "x", "a", "p", "l", "7", "2", "m", "r",
           "x", "y", "u", "x", "q", "7", "k", "s", "4", "h", "5", "2", "t",
           "g", "g", "s", "a", "j", "q", "9", "7", "m", "y", "c", "z", "2",
           "r", "0", "5", "2", "0", "3", "2", "7", "v", "5", "h", "q", "g",
           "d", "3", "3", "q", "5", "5", "3", "d", "j", "p" >>)

header ==
    Str(<< "-", "-", "-", "-", "-", "B", "E", "G", "I", "N", " ", "A", "G",
           "E", " ", "E", "N", "C", "R", "Y", "P", "T", "E", "D", " ", "F",
           "I", "L", "E", "-", "-", "-", "-", "-" >>) \o NewLine

footer ==
    NewLine \o
    Str(<< "-", "-", "-", "-", "-", "E", "N", "D", " ", "A", "G", "E", " ",
           "E", "N", "C", "R", "Y", "P", "T", "E", "D", " ", "F", "I", "L",
           "E", "-", "-", "-", "-", "-" >>)

Recipient ==
    Str(<< "R", "e", "c", "i", "p", "i", "e", "n", "t", ":", " " >>)

\* encryptWithAge(text): TextEncoder, btoa of the bytes, and the template
\* literal around it.
encryptWithAge(text) ==
    header \o Recipient \o AGE_PUBLIC_KEY \o NewLine \o NewLine
           \o btoa(TextEncode(text)) \o footer

\* What a reader holding no key makes of a text: the payload between the
\* fixed lines, through atob and TextDecoder; <<>> when the text has not the
\* shape encryptWithAge gives.
ReadWithoutKey(text) ==
    LET prefix == header \o Recipient \o AGE_PUBLIC_KEY \o NewLine \o NewLine
        inner == SubSeq(text, Len(prefix) + 1, Len(text) - Len(footer))
    IN  IF /\ Len(text) >= Len(prefix) + Len(footer)
           /\ Take(text, Len(prefix)) = prefix
           /\ Drop(text, Len(text) - Len(footer)) = footer
           /\ atob(inner).ok
            THEN TextDecode(atob(inner).bytes)
        ELSE <<>>

\* JSON.stringify of a string: quotes, with the quote, the backslash and the
\* line feed escaped (the texts of the model hold no other control
\* character).
RECURSIVE JSONescape(_)
JSONescape(s) ==
    IF s = <<>> THEN <<>>
    ELSE IF Len(s) = 1
        THEN IF s[1] = 34 THEN << 92, 34 >>
             ELSE IF s[1] = 92 THEN << 92, 92 >>
             ELSE IF s[1] = 10 THEN << 92, 110 >>
             ELSE s
    ELSE JSONescape(Take(s, Len(s) \div 2)) \o JSONescape(Drop(s, Len(s) \div 2))

JSONquote(s) == << 34 >> \o JSONescape(s) \o << 34 >>

True == Str(<< "t", "r", "u", "e" >>)

False == Str(<< "f", "a", "l", "s", "e" >>)

\* JSON.stringify({ text, encrypted, timestamp })
noteData(text, encrypted, timestamp) ==
    << 123 >> \o JSONquote(Str(<< "t", "e", "x", "t" >>)) \o << 58 >> \o JSONquote(text)
        \o << 44 >> \o JSONquote(Str(<< "e", "n", "c", "r", "y", "p", "t", "e", "d" >>))
        \o << 58 >> \o (IF encrypted THEN True ELSE False)
        \o << 44 >> \o JSONquote(Str(<< "t", "i", "m", "e", "s", "t", "a", "m", "p" >>))
        \o << 58 >> \o JSONquote(timestamp) \o << 125 >>

\* action({ request }) of the age variant, create branch and default branch:
\* the list after the request with this form data.
ageAction(list, formData) ==
    IF "intent" \in DOMAIN formData /\ formData.intent = Create
        THEN IF formData.text # <<>>
                 THEN TodoCreate(list, noteData(formData.text,
                                                formData.encrypted = True,
                                                formData.timestamp))
             ELSE list
    ELSE list

\* new Date().toISOString() at the render of the form.
Timestamp ==
    Str(<< "1", "9", "7", "0", "-", "0", "1", "-", "0", "1", "T", "0", "0",
           ":", "0", "0", ":", "0", "0", ".", "0", "0", "0", "Z" >>)

\* What can be typed into the textarea.
AgeTexts == {<<>>, << 97 >>, << 98 >>}

\* The longest textarea value that is still put through encryptWithAge (the
\* output of encryptWithAge stays in the textarea, and is longer).
MaxAreaLen == 8

AgeTypeText ==
    /\ \E value \in AgeTexts :
           /\ value # ageTextArea
           /\ ageTextArea' = value
    /\ UNCHANGED << encryptEnabled, ageRequest, store, notes, benchVars, password,
                    unlocked, decryptedNotes, error, attempts, cbcVars, calls,
                    createVars, rawVars >>

\* onChange of the checkbox.
AgeToggle ==
    /\ encryptEnabled' = ~encryptEnabled
    /\ UNCHANGED << ageTextArea, ageRequest, store, notes, benchVars, password,
                    unlocked, decryptedNotes, error, attempts, cbcVars, calls,
                    createVars, rawVars >>

\* Click on Add Note.  With the checkbox set the click is cancelled, the
\* textarea gets the output of encryptWithAge and form.requestSubmit() runs
\* without a submitter, so the form data holds no intent; with an empty
\* textarea nothing is sent.  Otherwise the form is submitted by its button.
AgeAddNote ==
    /\ IF encryptEnabled
           THEN /\ ageTextArea # <<>>
                /\ Len(ageTextArea) <= MaxAreaLen
                /\ ageTextArea' = encryptWithAge(ageTextArea)
                /\ ageRequest' =
                       [text |-> USVString(ageTextArea'),
                        timestamp |-> Timestamp,
                        encrypted |-> True]
                /\ store' = ageAction(store, ageRequest')
       ELSE /\ Len(store) < MaxNotes
            /\ ageRequest' =
                   [text |-> USVString(ageTextArea), timestamp |-> Timestamp,
                    encrypted |-> False, intent |-> Create]
            /\ store' = ageAction(store, ageRequest')
            /\ UNCHANGED ageTextArea
    /\ UNCHANGED << encryptEnabled, notes, benchVars, password, unlocked,
                    decryptedNotes, error, attempts, cbcVars, calls, createVars,
                    rawVars >>

AgeNext ==
    \/ AgeTypeText
    \/ AgeToggle
    \/ AgeAddNote

AgeInit == BenchIdle /\ UnlockIdle /\ CbcIdle

SpecAge == AgeInit /\ [][AgeNext]_vars

\* C16: a note submitted with "Encrypt with age" set is encrypted under a
\* key: a reader holding no key does not get the typed text back from the
\* text the form sends to be stored.
C16_NotReadableWithoutKey ==
    [][(/\ ageRequest' # ageRequest
        /\ ageRequest'.encrypted = True)
           => ReadWithoutKey(ageRequest'.text) # ageTextArea]_vars

\* C18: a note created in an unlocked session is encrypted under the
\* password of the attemptUnlock call that unlocked the session: the text
\* handleCreate submits decrypts under the password of an attempt of the
\* session that ended unlocked.
C18_CreatedUnderUnlockingPassword ==
    [][\A s \in Sessions :
           (creating[s].status = "running" /\ creating'[s].status = "idle"
            /\ submitted'[s] # <<>>)
               => \E a \in Calls :
                      /\ attempts[s][a].status = "unlocked"
                      /\ decryptText(attempts[s][a].password,
                                     submitted'[s].text).kind = "return"]_vars

\* C19: the list stays unlockable: whatever the sessions have done, one
\* password decrypts every stored note (attemptUnlock with it succeeds).
C19_OnePasswordUnlocks ==
    \E pw \in TypedPasswords :
        \A i \in DOMAIN store : decryptText(pw, store[i].text).kind = "return"

\* Two sessions, unlocked under passwords of different keys, have each
\* submitted a note, and neither password decrypts the note of the other.
C19_Witness ==
    \E s \in Tabs : \E t \in Tabs :
        /\ s # t
        /\ unlocked[s] /\ unlocked[t]
        /\ submitted[s] # <<>> /\ submitted[t] # <<>>
        /\ decryptText(password[s], submitted[t].text).kind = "throw"
        /\ decryptText(password[t], submitted[s].text).kind = "throw"

\* The list of decrypted notes that shows exactly the notes of this list.
Decrypted(list, pw) ==
    [i \in DOMAIN list |->
        [id |-> list[i].id, text |-> decryptText(pw, list[i].text).text]]

InSync(s) ==
    \E pw \in TypedPasswords :
        /\ \A i \in DOMAIN store : decryptText(pw, store[i].text).kind = "return"
        /\ decryptedNotes[s] = Decrypted(store, pw)

\* No continuation of an await is pending in the session: what follows is
\* up to the user.
Settled(s) ==
    /\ creating[s].status = "idle"
    /\ \A a \in Calls : attempts[s][a].status # "running"

\* C20: the displayed list follows the store: when an unlocked session holds
\* the list the loader returned for the store as it is now, and nothing of
\* the session is still under way, decryptedNotes holds exactly the decrypted
\* notes of the store.
C20_DisplayFollowsStore ==
    \A s \in Sessions :
        (unlocked[s] /\ notes[s] = store /\ Settled(s)) => InSync(s)

(***************************************************************************)
(* The page of the raw-key variant (part_001): the create form with        *)
(* handleEncryptSubmit, and the Decrypt All section with handleDecryptAll  *)
(* and handleResetDecrypt.                                                 *)
(***************************************************************************)

\* action({ request }) of part_001: the list after the request with this
\* form data.
rawAction(list, formData) ==
    IF "intent" \in DOMAIN formData /\ formData.intent = Create
        THEN LET textToStore ==
                     IF "encryptedText" \in DOMAIN formData
                            /\ formData.encryptedText # <<>>
                         THEN formData.encryptedText
                     ELSE IF "text" \in DOMAIN formData THEN formData.text
                     ELSE <<>>
             IN  IF textToStore # <<>> THEN TodoCreate(list, textToStore) ELSE list
    ELSE IF "intent" \in DOMAIN formData /\ formData.intent = Delete
        THEN TodoDelete(list, formData.id)
    ELSE list

\* notes.map(note => ({ id: note.id, text: note.text, isEncrypted: false }))
Undecrypted(list) ==
    [i \in DOMAIN list |-> [id |-> list[i].id, text |-> list[i].text,
                            isEncrypted |-> FALSE]]

\* What can be typed into the textarea and the two key inputs.
RawTexts == {<<>>, << 97 >>}

EncryptKeys == {<<>>, << 97 >>, << \hE9 >>}

RawDecryptKeys == {<<>>, << 97 >>, << 98 >>}

\* Texts a request may ask the server to store: a record made by encryptText
\* under the key "a", and a plaintext.
RawPostedTexts ==
    LET iv == CHOOSE v \in RandomValues(RawIvLength) : TRUE IN
    {encryptTextRaw(<< 97 >>, << 97 >>, iv).text, << 97 >>}

\* A create request (of any client of the route) reaches the action.
RawPostCreate ==
    /\ Len(store) < MaxNotes
    /\ \E text \in RawPostedTexts :
           store' = rawAction(store, [intent |-> Create, text |-> text])
    /\ UNCHANGED << notes, rawVars, besideRaw >>

\* The document is loaded: the loader runs, the component mounts and its
\* effect on [notes] has run.
RawLoaded(list) ==
    /\ notes' = [notes EXCEPT ![Page] = list]
    /\ rawTextArea' = <<>>
    /\ encryptKey' = <<>>
    /\ rawDecryptKey' = <<>>
    /\ rawDecrypted' = Undecrypted(list)
    /\ showDecryptAll' = FALSE
    /\ encrypting' = NoSubmit
    /\ decrypting' = NoDecryptAll

RawPageLoad ==
    /\ RawLoaded(store)
    /\ UNCHANGED << store, rawRequest, besideRaw >>

RawTypeText ==
    /\ \E value \in RawTexts : value # rawTextArea /\ rawTextArea' = value
    /\ UNCHANGED << store, notes, encryptKey, rawDecryptKey, rawDecrypted,
                    showDecryptAll, encrypting, decrypting, rawRequest,
                    besideRaw >>

\* onChange of the Encryption Key input.
SetEncryptKey ==
    /\ \E value \in EncryptKeys : value # encryptKey /\ encryptKey' = value
    /\ UNCHANGED << store, notes, rawTextArea, rawDecryptKey, rawDecrypted,
                    showDecryptAll, encrypting, decrypting, rawRequest,
                    besideRaw >>

\* Click on Show / Hide.
ToggleShowDecryptAll ==
    /\ showDecryptAll' = ~showDecryptAll
    /\ UNCHANGED << store, notes, rawTextArea, encryptKey, rawDecryptKey,
                    rawDecrypted, encrypting, decrypting, rawRequest,
                    besideRaw >>

\* onChange of the Decryption Key input (rendered while the section shows).
SetDecryptKey ==
    /\ showDecryptAll
    /\ \E value \in RawDecryptKeys : value # rawDecryptKey /\ rawDecryptKey' = value
    /\ UNCHANGED << store, notes, rawTextArea, encryptKey, rawDecrypted,
                    showDecryptAll, encrypting, decrypting, rawRequest,
                    besideRaw >>

\* form.submit() of the create form after the hidden input is appended: the
\* textarea and the hidden input are sent, without a submitter, and the
\* response is loaded as a document.
RawFormData(encryptedText) ==
    [text |-> USVString(rawTextArea), encryptedText |-> USVString(encryptedText)]

\* onSubmit of the create form: handleEncryptSubmit prevents the submission
\* and returns on an empty text; with a key it awaits encryptText, without
\* one it goes on to form.submit() with the text itself.
HandleEncryptSubmit ==
    /\ encrypting.status = "idle"
    /\ USVString(rawTextArea) # <<>>
    /\ IF encryptKey # <<>>
           THEN /\ encrypting' = [status |-> "encrypting",
                                  text |-> USVString(rawTextArea), key |-> encryptKey]
                /\ UNCHANGED << store, notes, rawTextArea, encryptKey, rawDecryptKey,
                                rawDecrypted, showDecryptAll, decrypting, rawRequest >>
       ELSE LET formData == RawFormData(USVString(rawTextArea)) IN
            /\ rawRequest' = formData
            /\ store' = rawAction(store, formData)
            /\ RawLoaded(rawAction(store, formData))
    /\ UNCHANGED << besideRaw >>

\* handleEncryptSubmit resumes after `await encryptText(text, encryptKey)`:
\* the catch block on a throw, else the hidden input and form.submit().
HandleEncryptSubmitResume ==
    /\ encrypting.status = "encrypting"
    /\ \E iv \in RandomValues(RawIvLength) :
         LET encrypted == encryptTextRaw(encrypting.text, encrypting.key, iv)
             formData == RawFormData(encrypted.text)
         IN  IF encrypted.kind = "throw"
                 THEN /\ encrypting' = NoSubmit
                      /\ UNCHANGED << store, notes, rawTextArea, encryptKey,
                                      rawDecryptKey, rawDecrypted, showDecryptAll,
                                      decrypting, rawRequest >>
             ELSE /\ rawRequest' = formData
                  /\ store' = rawAction(store, formData)
                  /\ RawLoaded(rawAction(store, formData))
    /\ UNCHANGED << besideRaw >>

\* Click on Decrypt All (rendered while the section shows): with a key,
\* handleDecryptAll starts a decryptText call for every note of its render
\* and awaits them all.
HandleDecryptAllStart ==
    /\ showDecryptAll
    /\ rawDecryptKey # <<>>
    /\ decrypting.status = "idle"
    /\ decrypting' = [status |-> "running", key |-> rawDecryptKey,
                      notes |-> notes[Page]]
    /\ UNCHANGED << store, notes, rawTextArea, encryptKey, rawDecryptKey,
                    rawDecrypted, showDecryptAll, encrypting, rawRequest,
                    besideRaw >>

\* One note as handleDecryptAll maps it.
DecryptedNote(note, key) ==
    LET decryptedText == decryptTextRaw(note.text, key).text
    IN  [id |-> note.id, text |-> decryptedText,
         isEncrypted |-> isEncrypted(note.text, decryptedText)]

\* handleDecryptAll resumes after `await Promise.all(...)`.
HandleDecryptAllResume ==
    /\ decrypting.status = "running"
    /\ rawDecrypted' =
           [i \in DOMAIN decrypting.notes |->
               DecryptedNote(decrypting.notes[i], decrypting.key)]
    /\ decrypting' = NoDecryptAll
    /\ UNCHANGED << store, notes, rawTextArea, encryptKey, rawDecryptKey,
                    showDecryptAll, encrypting, rawRequest, besideRaw >>

\* Click on Reset to Original.
HandleResetDecrypt ==
    /\ showDecryptAll
    /\ rawDecrypted' = Undecrypted(notes[Page])
    /\ rawDecryptKey' = <<>>
    /\ UNCHANGED << store, notes, rawTextArea, encryptKey, showDecryptAll,
                    encrypting, decrypting, rawRequest, besideRaw >>

RawPageInit == BenchIdle /\ UnlockIdle /\ CbcIdle

\* The create form of the page.
RawCreateNext ==
    \/ RawPostCreate
    \/ RawPageLoad
    \/ RawTypeText
    \/ SetEncryptKey
    \/ HandleEncryptSubmit
    \/ HandleEncryptSubmitResume

SpecRawCreate == RawPageInit /\ [][RawCreateNext]_vars

\* The Decrypt All section of the page.
RawDecryptNext ==
    \/ RawPostCreate
    \/ RawPageLoad
    \/ ToggleShowDecryptAll
    \/ SetDecryptKey
    \/ HandleDecryptAllStart
    \/ HandleDecryptAllResume
    \/ HandleResetDecrypt

SpecRawDecrypt == RawPageInit /\ [][RawDecryptNext]_vars

\* C21: after handleDecryptAll a note is marked isEncrypted (and shown with
\* the Decrypted badge) only if decryptText decrypted its stored text under
\* the key entered.
C21_BadgeOnlyWhenDecrypted ==
    [][(decrypting.status = "running" /\ decrypting'.status = "idle")
           => \A i \in DOMAIN rawDecrypted' :
                  rawDecrypted'[i].isEncrypted
                      => Succeeded(decryptTextRaw(decrypting.notes[i].text,
                                                  decrypting.key))]_vars

\* C22: a note submitted from the create form is stored: the form data the
\* submit handler sends holds intent=create with the encrypted text, and
\* after the action has run the list holds a note with that text.
C22_SubmittedIsStored ==
    [][\A s \in Sessions :
           (creating[s].status = "running" /\ creating'[s].status = "idle"
            /\ submitted'[s] # <<>>)
               => /\ "intent" \in DOMAIN submitted'[s]
                  /\ submitted'[s].intent = Create
                  /\ \E i \in DOMAIN store' : store'[i].text = submitted'[s].text]_vars

\* C23: with an encryption key set, the plaintext of the note does not leave
\* the browser: no field of the request that handleEncryptSubmit sends after
\* encrypting holds the text that was encrypted.
C23_PlaintextNeverSent ==
    [][(encrypting.status = "encrypting" /\ rawRequest' # rawRequest)
           => \A field \in DOMAIN rawRequest' :
                  rawRequest'[field] # encrypting.text]_vars

====
